---- MODULE Spec2Model ----
(***************************************************************************)
(* A model of the retrieval layer of twistedogic/advisory: the query       *)
(* builder and its Filter predicate, the chromem-backed vector store       *)
(* (Add, Search), the chunker and the command's collection key.            *)
(*                                                                         *)
(* Representation.  Metadata values, regular expressions and the model /   *)
(* collection names are sequences of one-character strings ("ab" is        *)
(* <<"a","b">>, the empty string is <<>>), because the code inspects       *)
(* their characters.  Metadata keys, document contents and query texts     *)
(* are only compared or hashed and stay TLA+ strings.  A Go map is a       *)
(* function whose domain is its key set; a nil map and an empty map are    *)
(* both <<>> (the code only takes len() of them and reads them).           *)
(***************************************************************************)
EXTENDS Integers, Sequences, FiniteSets, TLC

VARIABLES
    q,          \* SpecQuery: the *Query the caller holds (nil or a Query)
    qlast,      \* SpecQuery: the last builder / Filter call and its outcome
    coll,       \* SpecStore: the collection's records, keyed by record ID
    slast,      \* SpecStore: the last Add / Search call and its outcome
    docs,       \* SpecAdd: the batch handed to Add
    conc,       \* SpecAdd: c.concurrency
    documents,  \* SpecAdd: the slots of the batch being built
    writes,     \* SpecAdd: how many times each slot was assigned
    sem,        \* SpecAdd: number of permits in the buffered channel
    wg,         \* SpecAdd: the WaitGroup counter
    idx,        \* SpecAdd: the loop index of the main goroutine
    mainPc,     \* SpecAdd: where the main goroutine of Add is
    taskPc,     \* SpecAdd: where each per-document goroutine is
    persisted,  \* SpecAdd: the argument AddDocuments was called with
    chunks,     \* SpecChunk: the splitter's output
    heap,       \* SpecChunk: the map objects, by address
    cdocs,      \* SpecChunk: the documents slice; Metadata is an address
    ci,         \* SpecChunk: the loop index
    cpc,        \* SpecChunk: where chunkMarkdown is
    opened      \* SpecKey: the stores opened so far

qvars == <<q, qlast>>
svars == <<coll, slast>>
avars == <<docs, conc, documents, writes, sem, wg, idx, mainPc, taskPc, persisted>>
cvars == <<chunks, heap, cdocs, ci, cpc>>
kvars == <<opened>>
vars == <<qvars, svars, avars, cvars, kvars>>

(***************************************************************************)
(* Bounds of the model.                                                    *)
(***************************************************************************)
MaxKV == 4          \* longest key/value argument list of WithExact / WithRegex
MaxNumber == 2      \* largest Number a caller asks for
MaxBatch == 2       \* largest batch handed to Add in SpecStore
MaxDocs == 3        \* largest batch handed to Add in SpecAdd
MaxConc == 2        \* largest concurrency bound in SpecAdd
MaxChunks == 3      \* most chunks the splitter returns
MaxNameLen == 3     \* longest model / collection name
MaxStores == 2      \* most stores opened in SpecKey

(***************************************************************************)
(* Input alphabets.                                                        *)
(***************************************************************************)
Keys == {"title", "author"}
Values == {<<>>, <<"a">>, <<"a", "b">>}
\* Over the characters a b ^ $ . ( a pattern compiles iff it holds no "(".
Patterns == {<<"a">>, <<"^", "a", "$">>, <<"(">>}
Texts == {"", "sky"}
Numbers == 0..MaxNumber

EmptyMap == <<>>
\* Every map from a subset of ks to vs.
Maps(ks, vs) == UNION {[d -> vs] : d \in SUBSET ks}
Metadatas == Maps(Keys, Values)

\* Go's md[k]: the zero value "" for an absent key.
Lookup(md, k) == IF k \in DOMAIN md THEN md[k] ELSE <<>>

\* The argument lists kv...: keys at the even indexes (0, 2, ...), each
\* followed by its value; an odd list ends with a key that has no value.
FlattenPairs(ps) ==
    [i \in 1..(2 * Len(ps)) |-> IF i % 2 = 1 THEN ps[(i + 1) \div 2][1] ELSE ps[i \div 2][2]]
KVLists(vs) ==
    LET pairLists == UNION {[1..m -> Keys \X vs] : m \in 0..(MaxKV \div 2)}
    IN  {FlattenPairs(ps) : ps \in pairLists}
        \cup {Append(FlattenPairs(ps), k) :
                ps \in {x \in pairLists : 2 * Len(x) + 1 <= MaxKV}, k \in Keys}

\* The loop "for i := 0; i < len(kv); i += 2 { m[kv[i]] = kv[i+1] }": the
\* last pair of a key wins.
PairsToMap(kv) ==
    LET n == Len(kv) \div 2
        ks == {kv[2 * j - 1] : j \in 1..n}
        lastOf(k) == CHOOSE j \in 1..n :
                        /\ kv[2 * j - 1] = k
                        /\ \A j2 \in 1..n : kv[2 * j2 - 1] = k => j2 <= j
    IN  [k \in ks |-> kv[2 * lastOf(k)]]

(***************************************************************************)
(* regexp: MustCompile and MatchString for concatenations of literals,     *)
(* ".", "^" and "$" (no flags: "^" is the start and "$" the end of the     *)
(* text, a match may begin anywhere).                                      *)
(***************************************************************************)
Compiles(pat) == \A i \in 1..Len(pat) : pat[i] # "("

RECURSIVE MatchAt(_, _, _, _)
MatchAt(pat, text, p, pos) ==
    IF p > Len(pat) THEN TRUE
    ELSE CASE pat[p] = "^" -> pos = 0 /\ MatchAt(pat, text, p + 1, pos)
           [] pat[p] = "$" -> pos = Len(text) /\ MatchAt(pat, text, p + 1, pos)
           [] pat[p] = "." -> pos < Len(text) /\ MatchAt(pat, text, p + 1, pos + 1)
           [] OTHER -> /\ pos < Len(text)
                       /\ text[pos + 1] = pat[p]
                       /\ MatchAt(pat, text, p + 1, pos + 1)

MatchString(pat, text) == \E s \in 0..Len(text) : MatchAt(pat, text, 1, s)

(***************************************************************************)
(* Query and its builder.                                                  *)
(***************************************************************************)
NilQuery == [nil |-> TRUE, Query |-> "", Exact |-> EmptyMap, Regex |-> EmptyMap,
             Number |-> 0]
\* &Query{}
ZeroQuery == [nil |-> FALSE, Query |-> "", Exact |-> EmptyMap, Regex |-> EmptyMap,
              Number |-> 0]

setOrDefault(qq) == IF qq.nil THEN [ZeroQuery EXCEPT !.Number = 1] ELSE qq

WithQuery(qq, query) == [setOrDefault(qq) EXCEPT !.Query = query]

NewQuery(query) == WithQuery(ZeroQuery, query)

WithExact(qq, kv) == [setOrDefault(qq) EXCEPT !.Exact = PairsToMap(kv)]

WithRegex(qq, kv) == [setOrDefault(qq) EXCEPT !.Regex = PairsToMap(kv)]

WithNumber(qq, i) == [setOrDefault(qq) EXCEPT !.Number = i]

\* Filter dereferences its receiver (q.Exact): a nil receiver panics.
FilterPanics(qq) == qq.nil

FilterAnyExact(qq, md) ==
    IF Cardinality(DOMAIN qq.Exact) # 0
        THEN \E k \in DOMAIN qq.Exact : Lookup(md, k) = qq.Exact[k]
    ELSE IF Cardinality(DOMAIN qq.Regex) # 0
        THEN \A k \in DOMAIN qq.Regex : MatchString(qq.Regex[k], Lookup(md, k))
    ELSE TRUE

FilterAndsBoth(qq, md) ==
    /\ \A k \in DOMAIN qq.Exact : Lookup(md, k) = qq.Exact[k]
    /\ \A k \in DOMAIN qq.Regex : MatchString(qq.Regex[k], Lookup(md, k))

\* The switch of Filter: the first case whose condition holds is the only one run.
Filter(qq, md) ==
    IF Cardinality(DOMAIN qq.Exact) # 0
        THEN \A k \in DOMAIN qq.Exact : Lookup(md, k) = qq.Exact[k]
    ELSE IF Cardinality(DOMAIN qq.Regex) # 0
        THEN \A k \in DOMAIN qq.Regex : MatchString(qq.Regex[k], Lookup(md, k))
    ELSE TRUE

(***************************************************************************)
(* SpecQuery: a caller holding one *Query variable, calling the builder    *)
(* methods on it and Filter with arbitrary results.  A panic ends the      *)
(* program.                                                                *)
(***************************************************************************)
QLast(op, text, n, md, out) == [op |-> op, text |-> text, n |-> n, md |-> md, out |-> out]

QInit ==
    /\ q = NilQuery
    /\ qlast = QLast("none", "", 0, EmptyMap, FALSE)

QRunning == qlast.op # "panic"

QNewQuery ==
    /\ QRunning
    /\ \E t \in Texts :
        /\ q' = NewQuery(t)
        /\ qlast' = QLast("NewQuery", t, 0, EmptyMap, FALSE)
    /\ UNCHANGED <<svars, avars, cvars, kvars>>

QWithQuery ==
    /\ QRunning
    /\ \E t \in Texts :
        /\ q' = WithQuery(q, t)
        /\ qlast' = QLast("WithQuery", t, 0, EmptyMap, FALSE)
    /\ UNCHANGED <<svars, avars, cvars, kvars>>

QWithExact ==
    /\ QRunning
    /\ \E kv \in KVLists(Values) :
        IF Len(kv) % 2 # 0
        THEN /\ qlast' = QLast("panic", "WithExact", Len(kv), EmptyMap, FALSE)
             /\ UNCHANGED q
        ELSE /\ q' = WithExact(q, kv)
             /\ qlast' = QLast("WithExact", "", Len(kv), EmptyMap, FALSE)
    /\ UNCHANGED <<svars, avars, cvars, kvars>>

QWithRegex ==
    /\ QRunning
    /\ \E kv \in KVLists(Patterns) :
        IF \/ Len(kv) % 2 # 0
           \/ \E j \in 1..(Len(kv) \div 2) : ~Compiles(kv[2 * j])
        THEN /\ qlast' = QLast("panic", "WithRegex", Len(kv), EmptyMap, FALSE)
             /\ UNCHANGED q
        ELSE /\ q' = WithRegex(q, kv)
             /\ qlast' = QLast("WithRegex", "", Len(kv), EmptyMap, FALSE)
    /\ UNCHANGED <<svars, avars, cvars, kvars>>

QWithNumber ==
    /\ QRunning
    /\ \E i \in Numbers :
        /\ q' = WithNumber(q, i)
        /\ qlast' = QLast("WithNumber", "", i, EmptyMap, FALSE)
    /\ UNCHANGED <<svars, avars, cvars, kvars>>

QFilter ==
    /\ QRunning
    /\ \E md \in Metadatas :
        /\ qlast' = IF FilterPanics(q)
                    THEN QLast("panic", "Filter", 0, md, FALSE)
                    ELSE QLast("Filter", "", 0, md, Filter(q, md))
        /\ UNCHANGED q
    /\ UNCHANGED <<svars, avars, cvars, kvars>>

QNext ==
    \/ QNewQuery
    \/ QWithQuery
    \/ QWithExact
    \/ QWithRegex
    \/ QWithNumber
    \/ QFilter

(***************************************************************************)
(* The store: documents, record construction, Add and Search.              *)
(***************************************************************************)
\* The documents callers add: one content comes with two metadata maps.
Docs == {[Content |-> "sky", Metadata |-> EmptyMap],
         [Content |-> "sky", Metadata |-> [title |-> <<"a">>]],
         [Content |-> "leaves", Metadata |-> [title |-> <<"a">>]],
         [Content |-> "rat", Metadata |-> EmptyMap]}

\* hex(md5(s)) of the contents of the model.
md5hash(s) ==
    CASE s = "sky" -> "900bc885d7553375aec470198a9514f3"
      [] s = "leaves" -> "79f7d2ef17285d43eb5819ce8fd4699a"
      [] s = "rat" -> "e756f6aafafdef4debdb5e49bcbd3f11"
      [] s = "a" -> "0cc175b9c0f1b6a831c399e269772661"
      [] s = "b" -> "92eb5ffee6ae2fec3ad71c777531578f"

AddRecordHashesMetadata(doc) ==
    [ID |-> <<md5hash(doc.Content), doc.Metadata>>,
     Metadata |-> doc.Metadata, Content |-> doc.Content]

\* The chromem.Document a task of Add builds from one document.
AddRecord(doc) ==
    [ID |-> md5hash(doc.Content), Metadata |-> doc.Metadata, Content |-> doc.Content]

\* The documents slice at the end of Add's loop and barrier (SpecAdd models
\* the goroutines that fill it).
BuildDocuments(batch) == [i \in 1..Len(batch) |-> AddRecord(batch[i])]

\* collection.AddDocuments, the persistent collection's bulk write: the
\* records of the slots in S are stored under their IDs; of several records
\* with one ID any one may be the last written.
AddDocumentsOutcomes(c, recs, S) ==
    LET ids == {recs[i].ID : i \in S}
        picks == {p \in [ids -> S] : \A id \in ids : recs[p[id]].ID = id}
    IN  {[id \in DOMAIN c \cup ids |->
            IF id \in ids
            THEN [Content |-> recs[p[id]].Content, Metadata |-> recs[p[id]].Metadata]
            ELSE c[id]] : p \in picks}

SearchOptionsAsksOneMore(qq) ==
    [QueryText |-> qq.Query, Where |-> qq.Exact, NResults |-> qq.Number + 1]

\* chromem.QueryOptions as Search fills it.
SearchOptions(qq) ==
    [QueryText |-> qq.Query, Where |-> qq.Exact, NResults |-> qq.Number]

\* The records the pushed-down exact-match filter leaves.
Candidates(c, where) ==
    {id \in DOMAIN c : \A k \in DOMAIN where : Lookup(c[id].Metadata, k) = where[k]}

\* collection.QueryWithOptions when it succeeds: the NResults nearest
\* candidates, ranked; the ranking is the embedding's and is left open.
QueryWithOptionsOutcomes(c, opt) ==
    LET cand == Candidates(c, opt.Where)
        n == IF opt.NResults < Cardinality(cand) THEN opt.NResults ELSE Cardinality(cand)
    IN  IF opt.NResults < 1 THEN {<<>>}
        ELSE {[i \in 1..n |-> [ID |-> r[i], Metadata |-> c[r[i]].Metadata,
                               Content |-> c[r[i]].Content]] :
                r \in {s \in [1..n -> cand] : \A i, j \in 1..n : s[i] = s[j] => i = j}}

\* The Result built from one retrieved record (the score is the
\* collaborator's similarity and is not modelled).
ToResult(r) == [Content |-> r.Content, Metadata |-> r.Metadata]

\* The loop of Search over the retrieved records; it calls Filter on the
\* caller's query, not on the normalised one.
SearchLoopPanics(query, res) == Len(res) > 0 /\ FilterPanics(query)

SearchLoop(query, res) ==
    LET keep(r) == Filter(query, r.Metadata)
        kept == SelectSeq(res, keep)
    IN  [i \in 1..Len(kept) |-> ToResult(kept[i])]

\* The queries a caller hands to Search.
Batches == UNION {[1..n -> Docs] : n \in 1..MaxBatch}
ExactArgs == {<<>>, <<"title", <<"a">> >>, <<"title", <<>> >>}
RegexArgs == {<<>>, <<"title", <<"^", "a", "$">> >>}
SearchQueries ==
    {NilQuery} \cup {NewQuery(t) : t \in Texts}
    \cup {WithRegex(WithExact(WithNumber(NewQuery(t), n), ekv), rkv) :
            t \in Texts, n \in Numbers, ekv \in ExactArgs, rkv \in RegexArgs}

SLast(op, query, batch, outcome, res, results) ==
    [op |-> op, query |-> query, batch |-> batch, outcome |-> outcome,
     res |-> res, results |-> results]

SInit ==
    /\ coll = EmptyMap
    /\ slast = SLast("none", NilQuery, <<>>, "ok", <<>>, <<>>)

SRunning == slast.outcome # "panic"

SAddOk ==
    /\ SRunning
    /\ \E batch \in Batches :
        LET recs == BuildDocuments(batch) IN
        /\ coll' \in AddDocumentsOutcomes(coll, recs, 1..Len(recs))
        /\ slast' = SLast("Add", NilQuery, batch, "ok", <<>>, <<>>)
    /\ UNCHANGED <<qvars, avars, cvars, kvars>>

\* The bulk write fails (an embedding or a storage failure); what it wrote
\* before failing stays.
SAddErr ==
    /\ SRunning
    /\ \E batch \in Batches :
        LET recs == BuildDocuments(batch) IN
        \E S \in SUBSET (1..Len(recs)) :
            /\ S # 1..Len(recs)
            /\ coll' \in AddDocumentsOutcomes(coll, recs, S)
            /\ slast' = SLast("Add", NilQuery, batch, "err", <<>>, <<>>)
    /\ UNCHANGED <<qvars, avars, cvars, kvars>>

SSearchErr ==
    /\ SRunning
    /\ \E query \in SearchQueries :
        /\ slast' = SLast("Search", query, <<>>, "err", <<>>, <<>>)
        /\ UNCHANGED coll
    /\ UNCHANGED <<qvars, avars, cvars, kvars>>

SSearch ==
    /\ SRunning
    /\ \E query \in SearchQueries :
        LET qq == setOrDefault(query) IN
        \E res \in QueryWithOptionsOutcomes(coll, SearchOptions(qq)) :
            /\ slast' = IF SearchLoopPanics(query, res)
                        THEN SLast("Search", query, <<>>, "panic", res, <<>>)
                        ELSE SLast("Search", query, <<>>, "ok", res, SearchLoop(query, res))
            /\ UNCHANGED coll
    /\ UNCHANGED <<qvars, avars, cvars, kvars>>

SNext ==
    \/ SAddOk
    \/ SAddErr
    \/ SSearchErr
    \/ SSearch

(***************************************************************************)
(* SpecAdd: the goroutines of one Add call.  The loop variables i and doc  *)
(* are per-iteration (the test file uses testing.T.Context, Go >= 1.24),   *)
(* so task t reads docs[t] and writes slot t.                              *)
(***************************************************************************)
ADocs == {[Content |-> "sky", Metadata |-> EmptyMap],
          [Content |-> "leaves", Metadata |-> [title |-> <<"a">>]]}
ABatches == UNION {[1..n -> ADocs] : n \in 0..MaxDocs}
\* A slot of make([]chromem.Document, n).
ZeroRecord == [ID |-> "", Metadata |-> EmptyMap, Content |-> ""]
NotCalled == [called |-> FALSE, documents |-> <<>>]

AInit ==
    /\ docs = <<>>
    /\ conc = 0
    /\ documents = <<>>
    /\ writes = <<>>
    /\ sem = 0
    /\ wg = 0
    /\ idx = 0
    /\ mainPc = "nostore"
    /\ taskPc = <<>>
    /\ persisted = NotCalled

\* NewCollection: concurrency is runtime.NumCPU(), at least 1.
ANewCollection ==
    /\ mainPc = "nostore"
    /\ conc' \in 1..MaxConc
    /\ mainPc' = "idle"
    /\ UNCHANGED <<docs, documents, writes, sem, wg, idx, taskPc, persisted>>
    /\ UNCHANGED <<qvars, svars, cvars, kvars>>

\* Add is entered: documents, sem and wg are made.
AAddCall ==
    /\ mainPc = "idle"
    /\ \E batch \in ABatches :
        /\ docs' = batch
        /\ documents' = [i \in 1..Len(batch) |-> ZeroRecord]
        /\ writes' = [i \in 1..Len(batch) |-> 0]
        /\ taskPc' = [i \in 1..Len(batch) |-> "unborn"]
        /\ mainPc' = IF Len(batch) = 0 THEN "wait" ELSE "acquire"
    /\ sem' = 0
    /\ wg' = 0
    /\ idx' = 1
    /\ UNCHANGED <<conc, persisted>>
    /\ UNCHANGED <<qvars, svars, cvars, kvars>>

SemSendNeverBlocks(s, c) == TRUE

\* A send on the buffered channel proceeds while the buffer is not full.
SemCanSend(s, c) == s < c

\* sem <- struct{}{}
AAcquire ==
    /\ mainPc = "acquire"
    /\ SemCanSend(sem, conc)
    /\ sem' = sem + 1
    /\ mainPc' = "wgadd"
    /\ UNCHANGED <<docs, conc, documents, writes, wg, idx, taskPc, persisted>>
    /\ UNCHANGED <<qvars, svars, cvars, kvars>>

\* wg.Add(1)
AWgAdd ==
    /\ mainPc = "wgadd"
    /\ wg' = wg + 1
    /\ mainPc' = "go"
    /\ UNCHANGED <<docs, conc, documents, writes, sem, idx, taskPc, persisted>>
    /\ UNCHANGED <<qvars, svars, cvars, kvars>>

\* go func() {...}(), then the next iteration or the end of the loop.
AGo ==
    /\ mainPc = "go"
    /\ taskPc' = [taskPc EXCEPT ![idx] = "write"]
    /\ idx' = idx + 1
    /\ mainPc' = IF idx + 1 <= Len(docs) THEN "acquire" ELSE "wait"
    /\ UNCHANGED <<docs, conc, documents, writes, sem, wg, persisted>>
    /\ UNCHANGED <<qvars, svars, cvars, kvars>>

WaitReturnsAtOnce(w) == TRUE

\* wg.Wait() returns when the counter is zero.
WaitReturns(w) == w = 0

AWait ==
    /\ mainPc = "wait"
    /\ WaitReturns(wg)
    /\ mainPc' = "persist"
    /\ UNCHANGED <<docs, conc, documents, writes, sem, wg, idx, taskPc, persisted>>
    /\ UNCHANGED <<qvars, svars, cvars, kvars>>

\* c.collection.AddDocuments(ctx, documents, c.concurrency)
APersist ==
    /\ mainPc = "persist"
    /\ persisted' = [called |-> TRUE, documents |-> documents]
    /\ mainPc' = "done"
    /\ UNCHANGED <<docs, conc, documents, writes, sem, wg, idx, taskPc>>
    /\ UNCHANGED <<qvars, svars, cvars, kvars>>

\* documents[i] = chromem.Document{...}
TWrite(t) ==
    /\ t \in DOMAIN taskPc
    /\ taskPc[t] = "write"
    /\ documents' = [documents EXCEPT ![t] = AddRecord(docs[t])]
    /\ writes' = [writes EXCEPT ![t] = @ + 1]
    /\ taskPc' = [taskPc EXCEPT ![t] = "release"]
    /\ UNCHANGED <<docs, conc, sem, wg, idx, mainPc, persisted>>
    /\ UNCHANGED <<qvars, svars, cvars, kvars>>

\* <-sem
TRelease(t) ==
    /\ t \in DOMAIN taskPc
    /\ taskPc[t] = "release"
    /\ sem > 0
    /\ sem' = sem - 1
    /\ taskPc' = [taskPc EXCEPT ![t] = "wgdone"]
    /\ UNCHANGED <<docs, conc, documents, writes, wg, idx, mainPc, persisted>>
    /\ UNCHANGED <<qvars, svars, cvars, kvars>>

\* wg.Done()
TDone(t) ==
    /\ t \in DOMAIN taskPc
    /\ taskPc[t] = "wgdone"
    /\ wg' = wg - 1
    /\ taskPc' = [taskPc EXCEPT ![t] = "finished"]
    /\ UNCHANGED <<docs, conc, documents, writes, sem, idx, mainPc, persisted>>
    /\ UNCHANGED <<qvars, svars, cvars, kvars>>

AMain == AAcquire \/ AWgAdd \/ AGo \/ AWait \/ APersist
ATask(t) == TWrite(t) \/ TRelease(t) \/ TDone(t)

ANext ==
    \/ ANewCollection
    \/ AAddCall
    \/ AAcquire
    \/ AWgAdd
    \/ AGo
    \/ AWait
    \/ APersist
    \/ \E t \in 1..MaxDocs : TWrite(t)
    \/ \E t \in 1..MaxDocs : TRelease(t)
    \/ \E t \in 1..MaxDocs : TDone(t)

(***************************************************************************)
(* SpecChunk: chunkMarkdown.  The splitter's output is an input.  A Go map *)
(* is a reference: heap holds the map objects and a document's Metadata is *)
(* the address of one (0 is nil).                                          *)
(***************************************************************************)
ChunkTexts == {"c1", "c2"}
ChunkLists == UNION {[1..n -> ChunkTexts] : n \in 0..MaxChunks}
\* The metadata argument: nil, or a map of the caller's.
NilMap == [nil |-> TRUE, map |-> EmptyMap]
MetaArgs == {NilMap, [nil |-> FALSE, map |-> EmptyMap],
             [nil |-> FALSE, map |-> [title |-> <<"a">>]]}

Digit(d) == <<"0", "1", "2", "3", "4", "5", "6", "7", "8", "9">>[d + 1]
\* strconv.Itoa
RECURSIVE Itoa(_)
Itoa(n) ==
    IF n < 0 THEN <<"-">> \o Itoa(-n)
    ELSE IF n < 10 THEN <<Digit(n)>>
    ELSE Itoa(n \div 10) \o <<Digit(n % 10)>>

\* m[k] = v
MapSet(m, k, v) == [x \in DOMAIN m \cup {k} |-> IF x = k THEN v ELSE m[x]]

\* The metadata a document shows to a reader.
DocMetadata(d) == IF d.Metadata = 0 THEN EmptyMap ELSE heap[d.Metadata]

CInit ==
    /\ chunks = <<>>
    /\ heap = <<>>
    /\ cdocs = <<>>
    /\ ci = 0
    /\ cpc = "idle"

\* SplitText fails: chunkMarkdown returns the error.
CSplitErr ==
    /\ cpc = "idle"
    /\ cpc' = "failed"
    /\ UNCHANGED <<chunks, heap, cdocs, ci>>
    /\ UNCHANGED <<qvars, svars, avars, kvars>>

\* SplitText succeeds; a nil metadata is replaced by a new map; the
\* documents slice is made.
CCall ==
    /\ cpc = "idle"
    /\ \E cs \in ChunkLists, m \in MetaArgs :
        /\ chunks' = cs
        /\ heap' = <<IF m.nil THEN EmptyMap ELSE m.map>>
        /\ cdocs' = [i \in 1..Len(cs) |-> [Metadata |-> 0, Content |-> ""]]
    /\ ci' = 0
    /\ cpc' = "loop"
    /\ UNCHANGED <<qvars, svars, avars, kvars>>

\* One iteration: metadata["chunk"] = strconv.Itoa(i); documents[i] = ...
CIterate ==
    /\ cpc = "loop"
    /\ ci < Len(chunks)
    /\ heap' = [heap EXCEPT ![1] = MapSet(@, "chunk", Itoa(ci))]
    /\ cdocs' = [cdocs EXCEPT ![ci + 1] = [Metadata |-> 1, Content |-> chunks[ci + 1]]]
    /\ ci' = ci + 1
    /\ UNCHANGED <<chunks, cpc>>
    /\ UNCHANGED <<qvars, svars, avars, kvars>>

CReturn ==
    /\ cpc = "loop"
    /\ ci >= Len(chunks)
    /\ cpc' = "returned"
    /\ UNCHANGED <<chunks, heap, cdocs, ci>>
    /\ UNCHANGED <<qvars, svars, avars, kvars>>

CNext ==
    \/ CSplitErr
    \/ CCall
    \/ CIterate
    \/ CReturn

(***************************************************************************)
(* SpecKey: the command opening stores for (model, collection) flags.      *)
(***************************************************************************)
NameChars == {"a", "_"}
\* The -model and -collection flag values (their defaults are non-empty).
Names == UNION {[1..n -> NameChars] : n \in 1..MaxNameLen}

\* c.model + "_" + c.storeName
CollectionName(model, storeName) == model \o <<"_">> \o storeName

KInit == opened = {}

\* Store() succeeds: the collection of that name is got or created.
KStore ==
    /\ Cardinality(opened) < MaxStores
    /\ \E model \in Names, storeName \in Names :
        opened' = opened \cup {[model |-> model, storeName |-> storeName,
                                 collection |-> CollectionName(model, storeName)]}
    /\ UNCHANGED <<qvars, svars, avars, cvars>>

KNext == KStore

(***************************************************************************)
(* Specifications.  The five components share no state and are checked     *)
(* one at a time.                                                          *)
(***************************************************************************)
Init == QInit /\ SInit /\ AInit /\ CInit /\ KInit
Next == QNext \/ SNext \/ ANext \/ CNext \/ KNext
Spec == Init /\ [][Next]_vars

SpecQuery == Init /\ [][QNext]_vars
SpecStore == Init /\ [][SNext]_vars
\* The Go scheduler runs every runnable goroutine eventually; nothing makes
\* a caller call Add.
SpecAdd ==
    /\ Init
    /\ [][ANext]_vars
    /\ WF_vars(AMain)
    /\ \A t \in 1..MaxDocs : WF_vars(ATask(t))
SpecChunk == Init /\ [][CNext]_vars
SpecKey == Init /\ [][KNext]_vars

(***************************************************************************)
(* Claims.                                                                 *)
(***************************************************************************)

\* C1: for every text t, NewQuery(t) returns a query whose Query field is t
\* and whose Number field is 1.
C1_NewQueryNumberIsOne ==
    qlast.op = "NewQuery" =>
        /\ ~q.nil
        /\ q.Query = qlast.text
        /\ q.Number = 1

\* C2: Search called with a nil query completes by returning a result list
\* or a failure, also when the lookup returned records that go through the
\* filter step; it never crashes.
C2_NilSearchNeverCrashes ==
    (slast.op = "Search" /\ slast.query.nil) => slast.outcome \in {"ok", "err"}

\* C3 as stated: with a non-empty Exact map, Filter(r) is true iff every key
\* of Exact is present in r.Metadata with the required value; an absent key
\* never matches, whatever the required value.
C3_AbsentKeyNeverMatches ==
    (qlast.op = "Filter" /\ DOMAIN q.Exact # {}) =>
        (qlast.out <=> \A k \in DOMAIN q.Exact :
                          k \in DOMAIN qlast.md /\ qlast.md[k] = q.Exact[k])

\* C3 as amended: with a non-empty Exact map, Filter(r) is true iff every key
\* of Exact is either present in r.Metadata with the required value, or
\* absent from r.Metadata while the required value is the empty string.
C3_AbsentKeyReadsAsEmpty ==
    (qlast.op = "Filter" /\ DOMAIN q.Exact # {}) =>
        (qlast.out <=> \A k \in DOMAIN q.Exact :
                          \/ k \in DOMAIN qlast.md /\ qlast.md[k] = q.Exact[k]
                          \/ k \notin DOMAIN qlast.md /\ q.Exact[k] = <<>>)

\* Filter accepted a result that lacks a key whose required value is "".
C3_Witness ==
    /\ qlast.op = "Filter"
    /\ qlast.out
    /\ \E k \in DOMAIN q.Exact : k \notin DOMAIN qlast.md /\ q.Exact[k] = <<>>

ExactVerdict(exact, md) == \A k \in DOMAIN exact : Lookup(md, k) = exact[k]
RegexVerdict(regex, md) == \A k \in DOMAIN regex : MatchString(regex[k], Lookup(md, k))

\* C4: when Exact is non-empty, Filter's verdict is that of the Exact
\* predicate alone, whatever Regex holds; Regex decides only when Exact is
\* empty, and WithExact with no arguments leaves Exact empty.
C4_ExactTakesPrecedence ==
    /\ (qlast.op = "Filter" /\ DOMAIN q.Exact # {}) =>
            qlast.out = ExactVerdict(q.Exact, qlast.md)
    /\ (qlast.op = "Filter" /\ DOMAIN q.Exact = {} /\ DOMAIN q.Regex # {}) =>
            qlast.out = RegexVerdict(q.Regex, qlast.md)
    /\ (qlast.op = "WithExact" /\ qlast.n = 0) => DOMAIN q.Exact = {}

\* Both maps are set, the Exact pairs match, a pattern does not, and Filter
\* kept the result.
C4_Witness ==
    /\ qlast.op = "Filter"
    /\ DOMAIN q.Exact # {}
    /\ DOMAIN q.Regex # {}
    /\ ~RegexVerdict(q.Regex, qlast.md)
    /\ qlast.out

\* C5: a successful Search with NewQuery(t).WithNumber(n), n >= 1, returns at
\* most n results; it returns fewer than n only when the store holds fewer
\* than n records that pass the pushed-down exact filter or when the
\* post-filter removed a retrieved record; an unfiltered query against a
\* store of at least n records returns exactly n.
C5_AtMostNumberResults ==
    (slast.op = "Search" /\ slast.outcome = "ok" /\ ~slast.query.nil
        /\ slast.query.Number >= 1) =>
        LET n == slast.query.Number
            eligible == {id \in DOMAIN coll :
                            ExactVerdict(slast.query.Exact, coll[id].Metadata)}
        IN  /\ Len(slast.results) <= n
            /\ Len(slast.results) < n =>
                    \/ Cardinality(eligible) < n
                    \/ Len(slast.results) < Len(slast.res)
            /\ (DOMAIN slast.query.Exact = {} /\ DOMAIN slast.query.Regex = {}
                    /\ Cardinality(DOMAIN coll) >= n) =>
                    Len(slast.results) = n

\* Two records were retrieved for Number = 2 and the regex post-filter
\* removed one of them.
C5_Witness ==
    /\ slast.op = "Search"
    /\ slast.outcome = "ok"
    /\ slast.query.Number = 2
    /\ DOMAIN slast.query.Regex # {}
    /\ Len(slast.res) = 2
    /\ Len(slast.results) = 1

\* C6: after any sequence of Add calls the store holds at most one record per
\* distinct content, and no Search returns two results with one content.
C6_OneRecordPerContent ==
    /\ \A id1, id2 \in DOMAIN coll :
            coll[id1].Content = coll[id2].Content => id1 = id2
    /\ slast.op = "Search" =>
            \A i, j \in 1..Len(slast.results) :
                slast.results[i].Content = slast.results[j].Content => i = j

\* One successful batch held the same content twice with different metadata
\* and the store holds a single record.
C6_Witness ==
    /\ slast.op = "Add"
    /\ slast.outcome = "ok"
    /\ Len(slast.batch) = 2
    /\ slast.batch[1].Content = slast.batch[2].Content
    /\ slast.batch[1].Metadata # slast.batch[2].Metadata
    /\ Cardinality(DOMAIN coll) = 1

\* C7: two stores opened with distinct (model, collection name) pairs never
\* resolve to the same collection.
C7_CollectionNameInjective ==
    \A s1, s2 \in opened :
        s1.collection = s2.collection =>
            s1.model = s2.model /\ s1.storeName = s2.storeName

TasksHoldingPermit == {t \in DOMAIN taskPc : taskPc[t] \in {"write", "release"}}
\* The task main has admitted (sem sent) and not yet started.
AdmittedNotStarted == IF mainPc \in {"wgadd", "go"} THEN 1 ELSE 0

\* C8: when AddDocuments is called every slot i holds the record built from
\* docs[i] and was written exactly once, no slot is ever written twice, and
\* every Add that was entered reaches the call.
C8_BarrierBeforePersist ==
    /\ [](persisted.called =>
            /\ Len(persisted.documents) = Len(docs)
            /\ \A i \in 1..Len(docs) :
                /\ persisted.documents[i] =
                        [ID |-> md5hash(docs[i].Content),
                         Metadata |-> docs[i].Metadata,
                         Content |-> docs[i].Content]
                /\ writes[i] = 1)
    /\ [](\A i \in DOMAIN writes : writes[i] <= 1)
    /\ [](mainPc \notin {"nostore", "idle"} => <>persisted.called)

\* AddDocuments was called for a batch larger than the concurrency bound.
C8_Witness ==
    /\ persisted.called
    /\ Len(docs) > conc
    /\ Len(persisted.documents) = Len(docs)

\* C9: the tasks admitted and not yet past their release never outnumber the
\* concurrency bound, they are exactly the permits in the channel, and a
\* task at its record construction holds one of them.
C9_AdmittedAtMostBound ==
    mainPc # "nostore" =>
        /\ Cardinality(TasksHoldingPermit) + AdmittedNotStarted <= conc
        /\ Cardinality(TasksHoldingPermit) + AdmittedNotStarted = sem
        /\ \A t \in DOMAIN taskPc : taskPc[t] = "write" => sem >= 1

\* The bound is reached with documents left: main waits for a permit.
C9_Witness ==
    /\ mainPc = "acquire"
    /\ Cardinality(TasksHoldingPermit) = conc
    /\ Len(docs) > conc
    /\ \E t \in DOMAIN taskPc : taskPc[t] = "write"

\* C10: after chunkMarkdown returns, document i has Content equal to chunk i
\* and Metadata["chunk"] equal to the decimal string of i.
C10_ChunkIndexPerDocument ==
    cpc = "returned" =>
        /\ Len(cdocs) = Len(chunks)
        /\ \A i \in 1..Len(chunks) :
            /\ cdocs[i].Content = chunks[i]
            /\ Lookup(DocMetadata(cdocs[i]), "chunk") = Itoa(i - 1)

====
